---- MODULE Spec2Model ----
(***************************************************************************)
(* A model of the wiki server: the page store kept as one file per page    *)
(* under the data directory, the route matcher, the view, edit, save and   *)
(* index handlers, the requests that run them concurrently, and the link   *)
(* transform processLinks.                                                 *)
(*                                                                         *)
(* Strings are sequences of one-character strings, so that the regular     *)
(* expression, the suffix handling and the redirect targets are computed   *)
(* character by character as the code computes them.                       *)
(***************************************************************************)
EXTENDS Integers, Sequences, FiniteSets, TLC

(***************************************************************************)
(* Bounds of the model.                                                    *)
(***************************************************************************)
\* Number of requests the server handles concurrently.
NumProcs == 2
\* Number of requests accepted in one behaviour.
MaxReqs == 3
\* Length of the candidate names given to the two matchers.
MaxName == 3
\* Length of the contents given to processLinks.
MaxLen == 6

Procs == 1..NumProcs

(***************************************************************************)
(* Characters and strings.                                                 *)
(***************************************************************************)
Digits == {"0", "1", "2", "3", "4", "5", "6", "7", "8", "9"}
Upper == {"A", "B", "C", "D", "E", "F", "G", "H", "I", "J", "K", "L", "M",
          "N", "O", "P", "Q", "R", "S", "T", "U", "V", "W", "X", "Y", "Z"}
Lower == {"a", "b", "c", "d", "e", "f", "g", "h", "i", "j", "k", "l", "m",
          "n", "o", "p", "q", "r", "s", "t", "u", "v", "w", "x", "y", "z"}
\* The character class [a-zA-Z0-9] of validPath.
AlnumClass == Lower \cup Upper \cup Digits

\* The characters of the model in byte order; Code(c) is the rank of c.
ByteOrder == <<".", "/", "0", "1", "2", "3", "4", "5", "6", "7", "8", "9",
               "A", "B", "C", "D", "E", "F", "G", "H", "I", "J", "K", "L", "M",
               "N", "O", "P", "Q", "R", "S", "T", "U", "V", "W", "X", "Y", "Z",
               "a", "b", "c", "d", "e", "f", "g", "h", "i", "j", "k", "l", "m",
               "n", "o", "p", "q", "r", "s", "t", "u", "v", "w", "x", "y", "z">>
Code(c) == CHOOSE i \in DOMAIN ByteOrder : ByteOrder[i] = c

\* s < t in byte-wise lexicographic order.
StrLess(s, t) ==
    \E k \in 0..Len(s) :
        /\ k <= Len(t)
        /\ \A i \in 1..k : s[i] = t[i]
        /\ \/ k = Len(s) /\ k < Len(t)
           \/ k < Len(s) /\ k < Len(t) /\ Code(s[k + 1]) < Code(t[k + 1])

HasPrefix(s, pre) == Len(s) >= Len(pre) /\ SubSeq(s, 1, Len(pre)) = pre
HasSuffix(s, suf) ==
    Len(s) >= Len(suf) /\ SubSeq(s, Len(s) - Len(suf) + 1, Len(s)) = suf
TrimSuffix(s, suf) ==
    IF HasSuffix(s, suf) THEN SubSeq(s, 1, Len(s) - Len(suf)) ELSE s
Drop(s, n) == SubSeq(s, n + 1, Len(s))

\* The literals of the program.
EditKw == <<"e", "d", "i", "t">>
SaveKw == <<"s", "a", "v", "e">>
ViewKw == <<"v", "i", "e", "w">>
TxtSuffix == <<".", "t", "x", "t">>
RootPattern == <<"/">>
IndexPattern == <<"/", "i", "n", "d", "e", "x">>
EditPrefix == <<"/">> \o EditKw \o <<"/">>
SavePrefix == <<"/">> \o SaveKw \o <<"/">>
ViewPrefix == <<"/">> \o ViewKw \o <<"/">>

(***************************************************************************)
(* validPath: ^/(edit|save|view)/([a-zA-Z0-9]+)$                           *)
(* FindStringSubmatch gives nil (here <<>>) when the whole path does not   *)
(* match, and <<whole match, keyword, name>> when it does.                 *)
(***************************************************************************)
\* validPath without the closing anchor: ^/(edit|save|view)/([a-zA-Z0-9]+)
validPathUnanchored(path) ==
    LET kws == {kw \in {EditKw, SaveKw, ViewKw} :
                    HasPrefix(path, <<"/">> \o kw \o <<"/">>)}
    IN  IF kws = {} THEN <<>>
        ELSE LET kw == CHOOSE k \in kws : TRUE
                 rest == Drop(path, Len(kw) + 2)
                 stop == {i \in 1..Len(rest) : rest[i] \notin AlnumClass}
                 n == IF stop = {} THEN Len(rest)
                      ELSE (CHOOSE i \in stop : \A j \in stop : i <= j) - 1
             IN  IF n >= 1
                 THEN <<SubSeq(path, 1, Len(kw) + 2 + n), kw, SubSeq(rest, 1, n)>>
                 ELSE <<>>

validPath(path) ==
    LET kws == {kw \in {EditKw, SaveKw, ViewKw} :
                    HasPrefix(path, <<"/">> \o kw \o <<"/">>)}
    IN  IF kws = {} THEN <<>>
        ELSE LET kw == CHOOSE k \in kws : TRUE
                 name == Drop(path, Len(kw) + 2)
             IN  IF Len(name) >= 1 /\ \A i \in 1..Len(name) : name[i] \in AlnumClass
                 THEN <<path, kw, name>>
                 ELSE <<>>

(***************************************************************************)
(* The routes registered in main. A pattern ending in "/" matches every    *)
(* path it is a prefix of, "/index" matches that path alone, and the       *)
(* longest matching pattern wins. The handler is given r.URL.Path as the   *)
(* request carries it.                                                     *)
(***************************************************************************)
mux(path) ==
    IF HasPrefix(path, ViewPrefix) THEN "makeView"
    ELSE IF HasPrefix(path, EditPrefix) THEN "makeEdit"
    ELSE IF HasPrefix(path, SavePrefix) THEN "makeSave"
    ELSE IF path = IndexPattern THEN "index"
    ELSE "root"


\* makeHandler taking the title to be what follows the prefix of the path,
\* without validPath.
makeHandlerNoValidation(fn, path) ==
    [call |-> fn, title |-> Drop(path, Len(ViewPrefix))]

\* makeHandler(fn): the handler to call and the title handed to it, or no call
\* (http.NotFound) when validPath does not match.
makeHandler(fn, path) ==
    LET m == validPath(path)
    IN  IF m = <<>> THEN [call |-> "none", title |-> <<>>]
        ELSE [call |-> fn, title |-> m[3]]

\* rootHandler: the index for "/" itself, http.NotFound for everything else.
rootHandler(path) ==
    IF path = RootPattern THEN [call |-> "index", title |-> <<>>]
    ELSE [call |-> "none", title |-> <<>>]

\* The handler a request path ends in.
ServeMux(path) ==
    CASE mux(path) = "makeView" -> makeHandler("view", path)
      [] mux(path) = "makeEdit" -> makeHandler("edit", path)
      [] mux(path) = "makeSave" -> makeHandler("save", path)
      [] mux(path) = "index" -> [call |-> "index", title |-> <<>>]
      [] OTHER -> rootHandler(path)

(***************************************************************************)
(* Pages and responses.                                                    *)
(***************************************************************************)
NilPage == [nil |-> TRUE, Title |-> <<>>, Body |-> <<>>]
Page(title, body) == [nil |-> FALSE, Title |-> title, Body |-> body]

Response(status, kind, location, tmpl, page, pages) ==
    [status |-> status, kind |-> kind, location |-> location,
     tmpl |-> tmpl, page |-> page, pages |-> pages]
NoResponse == Response(0, "none", <<>>, "", NilPage, <<>>)
\* http.NotFound
NotFound == Response(404, "notfound", <<>>, "", NilPage, <<>>)
\* http.Error(w, err.Error(), http.StatusInternalServerError)
Error(err) == Response(500, err, <<>>, "", NilPage, <<>>)
\* http.Redirect(w, r, url, http.StatusFound)
Redirect(url) == Response(302, "redirect", url, "", NilPage, <<>>)

\* http.Error on a response that may have been written to: once the header
\* has gone out with the first bytes of the body, the status stays what it
\* is and the error text follows what has been written.
ErrorOn(w, err) ==
    IF w.status = 0 THEN Error(err) ELSE [w EXCEPT !.kind = "partial+error"]

\* templates.ExecuteTemplate(w, tmpl+".html", data): the template writes to w
\* as it is executed. x is how the execution ends: "none", it has written
\* the whole output; "early", it has failed before it wrote anything; "late",
\* it has failed with a part of the output written.
ExecuteTemplate(kind, tmpl, p, pages, x) ==
    CASE x = "none" ->
            [w |-> Response(200, kind, <<>>, tmpl, p, pages), err |-> "nil"]
      [] x = "early" ->
            [w |-> NoResponse, err |-> "EEXEC"]
      [] x = "late" ->
            [w |-> Response(200, "partial", <<>>, tmpl, p, pages), err |-> "EEXEC"]

\* renderTemplate: the named template executed on the page.
renderTemplate(tmpl, p, x) ==
    LET r == ExecuteTemplate("page", tmpl, p, <<>>, x)
    IN  IF r.err # "nil" THEN ErrorOn(r.w, r.err) ELSE r.w
\* renderIndexTemplate: the named template executed on the list of names.
renderIndexTemplate(tmpl, pages, x) ==
    LET r == ExecuteTemplate("index", tmpl, NilPage, pages, x)
    IN  IF r.err # "nil" THEN ErrorOn(r.w, r.err) ELSE r.w

(***************************************************************************)
(* The page store: the entries of the data directory. An entry is a        *)
(* directory or a regular file with its bytes.                             *)
(***************************************************************************)
File(data) == [isDir |-> FALSE, data |-> data]
Directory == [isDir |-> TRUE, data |-> <<>>]
\* The small letter of a capital letter, and every other character itself.
ToLower(c) == IF c \in Upper THEN ByteOrder[Code(c) + 26] ELSE c
\* The file of a title with its capital letters made small.
FileNameFolded(title) == [i \in DOMAIN title |-> ToLower(title[i])] \o TxtSuffix

\* Page.save and loadPage: the file a title is kept in.
FileName(title) == title \o TxtSuffix

\* Opening with O_CREATE alone: an existing file keeps its bytes.
OpenNoTrunc(d, f) == IF f \in DOMAIN d THEN d ELSE (f :> File(<<>>)) @@ d

\* Opening file f of directory d with O_CREATE|O_TRUNC: f is there, and empty.
OpenTrunc(d, f) == (f :> File(<<>>)) @@ d

\* A write of b at the start of a file holding old.
Overlay(old, b) == b \o Drop(old, Len(b))

\* The result of loadPage once os.ReadFile has returned body and err.
loadPage(t, data, e) ==
    IF e # "nil" THEN [page |-> NilPage, err |-> e]
    ELSE [page |-> Page(t, data), err |-> "nil"]

RECURSIVE SortByName(_)
\* os.ReadDir returns the entries sorted by file name.
SortByName(S) ==
    IF S = {} THEN <<>>
    ELSE LET m == CHOOSE x \in S : \A y \in S \ {x} : StrLess(x, y)
         IN  <<m>> \o SortByName(S \ {m})

RECURSIVE pagesOfNonEmpty(_, _)
\* The loop of getAllPages passing over files without content.
pagesOfNonEmpty(files, d) ==
    IF files = <<>> THEN <<>>
    ELSE LET name == Head(files)
             rest == pagesOfNonEmpty(Tail(files), d)
         IN  IF ~d[name].isDir /\ HasSuffix(name, TxtSuffix) /\ d[name].data # <<>>
             THEN <<TrimSuffix(name, TxtSuffix)>> \o rest
             ELSE rest

RECURSIVE pagesOf(_, _)
\* The loop of getAllPages over the entries that os.ReadDir returned.
pagesOf(files, d) ==
    IF files = <<>> THEN <<>>
    ELSE LET name == Head(files)
             rest == pagesOf(Tail(files), d)
         IN  IF ~d[name].isDir /\ HasSuffix(name, TxtSuffix)
             THEN <<TrimSuffix(name, TxtSuffix)>> \o rest
             ELSE rest

\* getAllPages on directory d, with err the error of os.ReadDir.
getAllPages(d, err) ==
    IF err # "nil" THEN [pages |-> <<>>, err |-> err]
    ELSE [pages |-> pagesOf(SortByName(DOMAIN d), d), err |-> "nil"]

(***************************************************************************)
(* The handlers, as functions of what the store returned.                  *)
(***************************************************************************)
indexHandler(d, err, x) ==
    LET r == getAllPages(d, err)
    IN  IF r.err # "nil" THEN Error(r.err)
        ELSE renderIndexTemplate("index", r.pages, x)

\* viewHandler answering every failed load with a server error.
viewHandlerServerError(title, body, err, x) ==
    LET r == loadPage(title, body, err)
    IN  IF r.err # "nil" THEN Error(r.err)
        ELSE renderTemplate("view", r.page, x)

\* viewHandler taking a page without content for a missing one.
viewHandlerEmptyIsMissing(title, body, err, x) ==
    LET r == loadPage(title, body, err)
    IN  IF r.err # "nil" \/ r.page.Body = <<>> THEN Redirect(EditPrefix \o title)
        ELSE renderTemplate("view", r.page, x)

viewHandler(title, body, err, x) ==
    LET r == loadPage(title, body, err)
    IN  IF r.err # "nil" THEN Redirect(EditPrefix \o title)
        ELSE renderTemplate("view", r.page, x)

\* editHandler answering a failed load with a server error.
editHandlerServerError(title, body, err, x) ==
    LET r == loadPage(title, body, err)
    IN  IF r.err # "nil" THEN Error(r.err)
        ELSE renderTemplate("edit", r.page, x)

editHandler(title, body, err, x) ==
    LET r == loadPage(title, body, err)
    IN  IF r.err # "nil" THEN renderTemplate("edit", Page(title, <<>>), x)
        ELSE renderTemplate("edit", r.page, x)

\* r.FormValue("body"): the empty string when the form has no such field.
FormValue(form) == IF form.hasBody THEN form.body ELSE <<>>

\* saveHandler redirecting whatever p.save() has returned.
saveHandlerIgnoresError(title, err) == Redirect(ViewPrefix \o title)

\* saveHandler after p.save() has returned err.
saveHandler(title, err) ==
    IF err # "nil" THEN Error(err)
    ELSE Redirect(ViewPrefix \o title)

(***************************************************************************)
(* processLinks: the regular expression \[([a-zA-Z0-9]+)\] and             *)
(* ReplaceAllStringFunc, which walks the text from the left, hands every   *)
(* match that does not overlap the one before it to the function, and      *)
(* copies the text between the matches.                                    *)
(***************************************************************************)
\* The literals of the anchor that processLinks writes.
AnchorOpen == <<"<", "a", " ", "h", "r", "e", "f", "=", "\"">>
AnchorMid == <<"\"", ">">>
AnchorClose == <<"<", "/", "a", ">">>

\* The length of the longest run of class characters of s that starts at i.
RunAt(s, i) ==
    LET stop == {j \in i..Len(s) : s[j] \notin AlnumClass}
    IN  IF stop = {} THEN Len(s) - i + 1
        ELSE (CHOOSE j \in stop : \A k \in stop : j <= k) - i

\* The link expression with * for +: \[([a-zA-Z0-9]*)\]
linkReStar(s, i) ==
    IF i > Len(s) \/ s[i] # "[" THEN 0
    ELSE LET n == RunAt(s, i + 1)
         IN  IF i + n + 1 <= Len(s) /\ s[i + n + 1] = "]"
             THEN i + n + 1
             ELSE 0

\* The link expression matched at position i of s: the position of the
\* closing bracket, or 0 when there is no match at i.
linkRe(s, i) ==
    IF i > Len(s) \/ s[i] # "[" THEN 0
    ELSE LET n == RunAt(s, i + 1)
         IN  IF n >= 1 /\ i + n + 1 <= Len(s) /\ s[i + n + 1] = "]"
             THEN i + n + 1
             ELSE 0

\* The start of the leftmost match of the link expression in s at or after
\* pos, or 0 when there is none.
FindFrom(s, pos) ==
    LET at == {i \in pos..Len(s) : linkRe(s, i) # 0}
    IN  IF at = {} THEN 0 ELSE CHOOSE i \in at : \A j \in at : i <= j

\* The function processLinks hands to ReplaceAllStringFunc.
pageName(match) == SubSeq(match, 2, Len(match) - 1)
\* The target written with the brackets of the match left on.
hrefOfMatch(match) == ViewPrefix \o match
hrefOf(match) == ViewPrefix \o pageName(match)
Anchor(match) ==
    AnchorOpen \o hrefOf(match) \o AnchorMid \o pageName(match) \o AnchorClose

RECURSIVE Matches(_, _)
\* The matches ReplaceAllStringFunc finds in s from pos on, in order.
Matches(s, pos) ==
    LET i == FindFrom(s, pos)
    IN  IF i = 0 THEN <<>>
        ELSE <<SubSeq(s, i, linkRe(s, i))>> \o Matches(s, linkRe(s, i) + 1)

\* ReplaceAllStringFunc stopping after the first match.
ReplaceFirstStringFunc(s, pos) ==
    LET i == FindFrom(s, pos)
    IN  IF i = 0 THEN Drop(s, pos - 1)
        ELSE SubSeq(s, pos, i - 1) \o Anchor(SubSeq(s, i, linkRe(s, i)))
                 \o Drop(s, linkRe(s, i))

RECURSIVE ReplaceAllStringFunc(_, _)
ReplaceAllStringFunc(s, pos) ==
    LET i == FindFrom(s, pos)
    IN  IF i = 0 THEN Drop(s, pos - 1)
        ELSE SubSeq(s, pos, i - 1) \o Anchor(SubSeq(s, i, linkRe(s, i)))
                 \o ReplaceAllStringFunc(s, linkRe(s, i) + 1)

processLinks(data) == ReplaceAllStringFunc(data, 1)


(***************************************************************************)
(* The requests of the model.                                              *)
(***************************************************************************)
\* Two names that differ in nothing but the case of their letter.
Names == {<<"A">>, <<"a">>}
Bodies == {<<>>, <<"x">>, <<"y", "z">>}

ValidPaths == {pre \o n : pre \in {ViewPrefix, EditPrefix, SavePrefix}, n \in Names}
ListingPaths == {RootPattern, IndexPattern}
InvalidPaths ==
    { <<"/", "d", "e", "l", "e", "t", "e", "/", "A">>,         \* /delete/A
      ViewPrefix,                                               \* /view/
      ViewPrefix \o <<".", ".", "/", "e", "t", "c">>,           \* /view/../etc
      ViewPrefix \o <<"A", "/", "x">>,                          \* /view/A/x
      EditPrefix \o <<"A">> \o TxtSuffix,                       \* /edit/A.txt
      SavePrefix \o <<".", ".", "/", "k">>,                     \* /save/../k
      IndexPattern \o <<"/", "A">> }                            \* /index/A
Paths == ValidPaths \cup ListingPaths \cup InvalidPaths

\* What ServeMux does with each path of the model.
Dispatch == [path \in Paths |-> ServeMux(path)]

\* The form of a request: with a body field, or without one.
NoForm == [hasBody |-> FALSE, body |-> <<>>]
Forms == {NoForm} \cup {[hasBody |-> TRUE, body |-> b] : b \in Bodies}

\* The strings of at most n characters of chars.
Strings(chars, n) == UNION {[1..k -> chars] : k \in 0..n}
\* The candidate names: letters of both cases and digits, and characters
\* outside the class.
NameChars == {"A", "z", "0", ".", "/", "[", "]", " ", "_"}
\* The contents: names, brackets and blanks.
ContentChars == {"A", "0", "[", "]", " "}
Contents == Strings(NameChars, MaxName) \cup Strings(ContentChars, MaxLen)
Keywords == {"view", "edit", "save"}
PrefixOf(fn) ==
    CASE fn = "view" -> ViewPrefix
      [] fn = "edit" -> EditPrefix
      [] fn = "save" -> SavePrefix

(***************************************************************************)
(* What a store with atomic puts could hold under a name: no record, or a  *)
(* record with some content. Unsettled marks a name on which a save has    *)
(* begun that no later save, alone on the name and successful, has         *)
(* settled.                                                                *)
(***************************************************************************)
NoRec == [exists |-> FALSE, data |-> <<>>]
Rec(c) == [exists |-> TRUE, data |-> c]
Unsettled == [exists |-> FALSE, data |-> <<"?">>]
NoGhost == [rposs |-> {}, flag |-> FALSE, io |-> FALSE, nofield |-> FALSE]

VARIABLES
    dir,     \* the data directory: file name -> entry
    faulty,  \* the calls that may fail in this run
    nreqs,   \* requests accepted so far
    pc,      \* where each request is: idle, open, read, wopen, write, readdir, done
    req,     \* the path of the request
    body,    \* saveHandler: the body taken from the form
    call,    \* the handler the request was dispatched to
    title,   \* the title makeHandler handed to it
    buf,     \* os.ReadFile: the bytes read so far
    err,     \* the error of the handler's store call
    resp,    \* the response written
    poss,    \* history: name -> what an atomic store could now hold under it,
             \* with Unsettled while a save on the name is not settled
    gh,      \* history, per request: rposs, what an atomic store could have
             \* returned to this read; flag, for a save that no other save on
             \* the name overlapped it, for a listing that no save overlapped
             \* it; io, that the request has called the store; nofield, for
             \* a save that its form carried no body field
    saved,   \* history: the names a save has succeeded for
    content, \* the string given to the matchers and to processLinks
    lpc,     \* what has been applied to content: off, input, matched,
             \* processed, followed
    valid,   \* the handlers the router calls with content as the title, and
             \* whether the link expression matches content in brackets
    html,    \* the result of processLinks(content)
    follow   \* a link of html followed: its target and what the router does

wikiVars == <<dir, faulty, nreqs, pc, req, body, call, title, buf, err, resp, poss, gh, saved>>
linkVars == <<content, lpc, valid, html, follow>>
vars == <<wikiVars, linkVars>>

NoValid == [route |-> {}, marker |-> FALSE]
NoFollow == [href |-> <<>>, name |-> <<>>, call |-> "none", title |-> <<>>,
             resp |-> NoResponse]

\* The data directory main found: no page yet, and two entries that are not
\* pages, a file without the suffix and a directory.
ForeignDir == (<<"k">> :> File(<<"x">>)) @@ (<<"d">> \o TxtSuffix :> Directory)

InitCommon ==
    /\ dir = ForeignDir
    /\ nreqs = 0
    /\ pc = [p \in Procs |-> "idle"]
    /\ req = [p \in Procs |-> <<>>]
    /\ body = [p \in Procs |-> <<>>]
    /\ call = [p \in Procs |-> "none"]
    /\ title = [p \in Procs |-> <<>>]
    /\ buf = [p \in Procs |-> <<>>]
    /\ err = [p \in Procs |-> "nil"]
    /\ resp = [p \in Procs |-> NoResponse]
    /\ poss = [n \in Names |-> {NoRec}]
    /\ gh = [p \in Procs |-> NoGhost]
    /\ saved = {}

\* The server specifications apply nothing to a content.
LinksOff ==
    /\ content = <<>>
    /\ lpc = "off"
    /\ valid = NoValid
    /\ html = <<>>
    /\ follow = NoFollow

\* The calls that can fail: those of os.ReadFile, os.WriteFile and os.ReadDir,
\* and the execution of a template.
Calls == {"open", "read", "wopen", "write", "readdir", "execute"}

Init == InitCommon /\ LinksOff /\ faulty = {}
InitFault == InitCommon /\ LinksOff /\ faulty = Calls
InitPutFault == InitCommon /\ LinksOff /\ faulty = {"wopen"}
\* A content to apply the matchers and processLinks to; no request is served.
InitLinks ==
    /\ InitCommon
    /\ faulty = {}
    /\ content \in Contents
    /\ lpc = "input"
    /\ valid = NoValid
    /\ html = <<>>
    /\ follow = NoFollow

\* Whether a storage call fails with an I/O error.
Faults(op) == IF op \in faulty THEN {FALSE, TRUE} ELSE {FALSE}
\* How the execution of a template ends.
ExecFaults == IF "execute" \in faulty THEN {"none", "early", "late"} ELSE {"none"}

\* What an atomic store could hold under title n.
PossOf(n) == IF n \in DOMAIN poss THEN poss[n] ELSE {NoRec}

Active(q) == pc[q] \notin {"idle", "done"}
Reading(q, n) == Active(q) /\ call[q] \in {"view", "edit"} /\ title[q] = n
Saving(q, n) == Active(q) /\ call[q] = "save" /\ title[q] = n

\* The first program point of a handler.
Entry(fn) ==
    CASE fn = "view" -> "open"
      [] fn = "edit" -> "open"
      [] fn = "save" -> "wopen"
      [] fn = "index" -> "readdir"
      [] OTHER -> "done"

(***************************************************************************)
(* A request arrives and is dispatched: to http.NotFound, or to a handler, *)
(* which runs up to its first storage call. The requests are handled by    *)
(* interchangeable goroutines, so the lowest idle one takes the request.   *)
(***************************************************************************)
ServeHTTP(p) ==
    /\ pc[p] = "idle"
    /\ \A q \in Procs : q < p => pc[q] # "idle"
    /\ nreqs < MaxReqs
    /\ \E path \in Paths, form \in Forms :
        LET r == Dispatch[path]
            n == r.title
            c == FormValue(form)
        IN  /\ r.call # "save" => form = NoForm   \* only saveHandler reads the form
            /\ nreqs' = nreqs + 1
            /\ req' = [req EXCEPT ![p] = path]
            /\ body' = [body EXCEPT ![p] = IF r.call = "save" THEN c ELSE <<>>]
            /\ call' = [call EXCEPT ![p] = r.call]
            /\ title' = [title EXCEPT ![p] = n]
            /\ pc' = [pc EXCEPT ![p] = Entry(r.call)]
            /\ resp' = [resp EXCEPT ![p] = IF r.call = "none" THEN NotFound ELSE NoResponse]
            /\ poss' = IF r.call = "save"
                       THEN [poss EXCEPT ![n] = @ \cup {Rec(c), Unsettled}]
                       ELSE poss
            /\ gh' = [q \in Procs |->
                        IF q = p
                        THEN CASE r.call = "save" ->
                                    [rposs |-> {}, io |-> FALSE,
                                     flag |-> ~\E o \in Procs : Saving(o, n),
                                     nofield |-> ~form.hasBody]
                               [] r.call \in {"view", "edit"} ->
                                    [rposs |-> PossOf(n), flag |-> FALSE, io |-> FALSE,
                                     nofield |-> FALSE]
                               [] r.call = "index" ->
                                    [rposs |-> {}, io |-> FALSE, nofield |-> FALSE,
                                     flag |-> ~\E o \in Procs : Active(o) /\ call[o] = "save"]
                               [] OTHER -> NoGhost
                        ELSE IF r.call # "save" THEN gh[q]
                        ELSE IF Reading(q, n)
                        THEN [gh[q] EXCEPT !.rposs = @ \cup {Rec(c), Unsettled}]
                        ELSE IF Saving(q, n) THEN [gh[q] EXCEPT !.flag = FALSE]
                        ELSE IF Active(q) /\ call[q] = "index" THEN [gh[q] EXCEPT !.flag = FALSE]
                        ELSE gh[q]]
            /\ UNCHANGED <<dir, faulty, buf, err, saved>>
            /\ UNCHANGED linkVars

\* The handler a load returns to.
Loaded(fn, t, data, e, x) ==
    IF fn = "view" THEN viewHandler(t, data, e, x) ELSE editHandler(t, data, e, x)

\* loadPage returns to viewHandler or editHandler, which responds.
LoadReturns(p, data, e) ==
    /\ pc' = [pc EXCEPT ![p] = "done"]
    /\ buf' = [buf EXCEPT ![p] = data]
    /\ err' = [err EXCEPT ![p] = e]
    /\ \E x \in ExecFaults :
            resp' = [resp EXCEPT ![p] = Loaded(call[p], title[p], data, e, x)]

\* os.ReadFile opening with O_CREATE: a missing file is created, empty.
ReadFileOpenCreates(p) ==
    /\ pc[p] = "open"
    /\ \E fault \in Faults("open") :
        LET f == FileName(title[p])
            e == IF fault THEN "EIO" ELSE "nil"
        IN  IF e # "nil" THEN LoadReturns(p, <<>>, e) /\ UNCHANGED dir
            ELSE /\ pc' = [pc EXCEPT ![p] = "read"]
                 /\ dir' = OpenNoTrunc(dir, f)
                 /\ UNCHANGED <<buf, err, resp>>
    /\ gh' = [gh EXCEPT ![p].io = TRUE]
    /\ UNCHANGED <<faulty, nreqs, req, body, call, title, poss, saved>>
    /\ UNCHANGED linkVars

\* os.ReadFile opens the file of the title.
ReadFileOpen(p) ==
    /\ pc[p] = "open"
    /\ \E fault \in Faults("open") :
        LET f == FileName(title[p])
            e == IF fault THEN "EIO" ELSE IF f \notin DOMAIN dir THEN "ENOENT" ELSE "nil"
        IN  IF e # "nil" THEN LoadReturns(p, <<>>, e)
            ELSE /\ pc' = [pc EXCEPT ![p] = "read"]
                 /\ UNCHANGED <<buf, err, resp>>
    /\ gh' = [gh EXCEPT ![p].io = TRUE]
    /\ UNCHANGED <<dir, faulty, nreqs, req, body, call, title, poss, saved>>
    /\ UNCHANGED linkVars

\* os.ReadFile reads on from where it is, until a read finds the end of the file.
ReadFileRead(p) ==
    /\ pc[p] = "read"
    /\ \E fault \in Faults("read") :
        LET ent == dir[FileName(title[p])]
            more == Drop(ent.data, Len(buf[p]))
        IN  IF fault THEN LoadReturns(p, <<>>, "EIO")
            ELSE IF ent.isDir THEN LoadReturns(p, <<>>, "EISDIR")
            ELSE IF more = <<>> THEN LoadReturns(p, buf[p], "nil")
            ELSE /\ buf' = [buf EXCEPT ![p] = @ \o more]
                 /\ UNCHANGED <<pc, err, resp>>
    /\ UNCHANGED <<dir, faulty, nreqs, req, body, call, title, poss, gh, saved>>
    /\ UNCHANGED linkVars

\* p.save() returns to saveHandler, which responds.
SaveReturns(p, e) ==
    /\ pc' = [pc EXCEPT ![p] = "done"]
    /\ err' = [err EXCEPT ![p] = e]
    /\ resp' = [resp EXCEPT ![p] = saveHandler(title[p], e)]
    /\ saved' = IF e = "nil" THEN saved \cup {title[p]} ELSE saved
    /\ poss' = IF e = "nil" /\ gh[p].flag
               THEN [poss EXCEPT ![title[p]] = {Rec(body[p])}]
               ELSE poss

\* os.WriteFile opens the file with O_WRONLY|O_CREATE|O_TRUNC.
WriteFileOpen(p) ==
    /\ pc[p] = "wopen"
    /\ \E fault \in Faults("wopen") :
        LET f == FileName(title[p])
            e == IF fault THEN "EIO"
                 ELSE IF f \in DOMAIN dir /\ dir[f].isDir THEN "EISDIR" ELSE "nil"
        IN  IF e # "nil" THEN SaveReturns(p, e) /\ UNCHANGED dir
            ELSE /\ dir' = OpenTrunc(dir, f)
                 /\ pc' = [pc EXCEPT ![p] = "write"]
                 /\ UNCHANGED <<err, resp, saved, poss>>
    /\ gh' = [gh EXCEPT ![p].io = TRUE]
    /\ UNCHANGED <<faulty, nreqs, req, body, call, title, buf>>
    /\ UNCHANGED linkVars

\* os.WriteFile writes the body from offset 0 and closes the file; a failing
\* write has written a proper prefix of the body, or nothing.
WriteFileWrite(p) ==
    /\ pc[p] = "write"
    /\ \E fault \in Faults("write") :
        LET f == FileName(title[p])
            b == body[p]
        IN  IF fault
            THEN \E k \in {j \in 0..Len(b) : j < Len(b) \/ j = 0} :
                    /\ dir' = [dir EXCEPT ![f] = File(Overlay(@.data, SubSeq(b, 1, k)))]
                    /\ SaveReturns(p, "EIO")
            ELSE /\ dir' = [dir EXCEPT ![f] = File(Overlay(@.data, b))]
                 /\ SaveReturns(p, "nil")
    /\ UNCHANGED <<faulty, nreqs, req, body, call, title, buf, gh>>
    /\ UNCHANGED linkVars

\* indexHandler: getAllPages reads the data directory, and the index is rendered.
ReadDir(p) ==
    /\ pc[p] = "readdir"
    /\ \E fault \in Faults("readdir"), x \in ExecFaults :
        LET e == IF fault THEN "EIO" ELSE "nil"
        IN  /\ err' = [err EXCEPT ![p] = e]
            /\ resp' = [resp EXCEPT ![p] = indexHandler(dir, e, x)]
    /\ pc' = [pc EXCEPT ![p] = "done"]
    /\ gh' = [gh EXCEPT ![p].io = TRUE]
    /\ UNCHANGED <<dir, faulty, nreqs, req, body, call, title, buf, poss, saved>>
    /\ UNCHANGED linkVars

\* The handler has returned and the request ends; nothing of it is kept.
Return(p) ==
    /\ pc[p] = "done"
    /\ pc' = [pc EXCEPT ![p] = "idle"]
    /\ req' = [req EXCEPT ![p] = <<>>]
    /\ body' = [body EXCEPT ![p] = <<>>]
    /\ call' = [call EXCEPT ![p] = "none"]
    /\ title' = [title EXCEPT ![p] = <<>>]
    /\ buf' = [buf EXCEPT ![p] = <<>>]
    /\ err' = [err EXCEPT ![p] = "nil"]
    /\ resp' = [resp EXCEPT ![p] = NoResponse]
    /\ gh' = [gh EXCEPT ![p] = NoGhost]
    /\ UNCHANGED <<dir, faulty, nreqs, poss, saved>>
    /\ UNCHANGED linkVars

\* A handler that has responded returns before anything else happens: its
\* return touches nothing that another request reads.
NoneDone == \A q \in Procs : pc[q] # "done"

Next ==
    \E p \in Procs :
        \/ NoneDone /\ ServeHTTP(p)
        \/ NoneDone /\ ReadFileOpen(p)
        \/ NoneDone /\ ReadFileRead(p)
        \/ NoneDone /\ WriteFileOpen(p)
        \/ NoneDone /\ WriteFileWrite(p)
        \/ NoneDone /\ ReadDir(p)
        \/ Return(p)

(***************************************************************************)
(* The matchers and processLinks applied to a content.                     *)
(***************************************************************************)
\* The router is given /view/, /edit/ and /save/ followed by content, and the
\* link expression is given content in brackets.
MatchName ==
    /\ lpc = "input"
    /\ lpc' = "matched"
    /\ valid' = [route |-> {fn \in Keywords :
                              ServeMux(PrefixOf(fn) \o content)
                                  = [call |-> fn, title |-> content]},
                 marker |-> LET tok == <<"[">> \o content \o <<"]">>
                            IN  linkRe(tok, 1) = Len(tok)]
    /\ UNCHANGED <<content, html, follow>>
    /\ UNCHANGED wikiVars

\* The view template calls processLinks on the body.
ApplyProcessLinks ==
    /\ lpc = "input"
    /\ lpc' = "processed"
    /\ html' = processLinks(content)
    /\ UNCHANGED <<content, valid, follow>>
    /\ UNCHANGED wikiVars

\* A link that processLinks wrote is followed: the router is given its
\* target, and viewHandler finds no file for the title.
FollowLink ==
    /\ lpc = "processed"
    /\ lpc' = "followed"
    /\ \E k \in DOMAIN Matches(content, 1) :
        LET match == Matches(content, 1)[k]
            r == ServeMux(hrefOf(match))
        IN  follow' = [href |-> hrefOf(match), name |-> pageName(match),
                       call |-> r.call, title |-> r.title,
                       resp |-> IF r.call = "view"
                                THEN viewHandler(r.title, <<>>, "ENOENT", "none")
                                ELSE NotFound]
    /\ UNCHANGED <<content, valid, html>>
    /\ UNCHANGED wikiVars

NextLinks ==
    \/ MatchName
    \/ ApplyProcessLinks
    \/ FollowLink

\* The server on storage that does not fail.
Spec == Init /\ [][Next]_vars
\* The server on storage whose calls may fail with an I/O error, and with
\* templates whose execution may fail.
SpecFault == InitFault /\ [][Next]_vars
\* The server on storage where os.WriteFile may fail to open the file.
SpecPutFault == InitPutFault /\ [][Next]_vars
\* The matchers and processLinks on every content of the bounds.
SpecLinks == InitLinks /\ [][NextLinks]_vars


(***************************************************************************)
(* The properties.                                                         *)
(***************************************************************************)
Done(p) == pc[p] = "done"
\* The request of p has come through loadPage (view or edit).
Loads(p) == Done(p) /\ call[p] \in {"view", "edit"}
\* The page name a path carries after its six-character prefix.
NameOf(path) == Drop(path, Len(ViewPrefix))
\* A path of the form "/" (view|edit|save) "/" name, the name one or more
\* ASCII letters and digits.
WellFormed(path) ==
    \E pre \in {ViewPrefix, EditPrefix, SavePrefix} :
        /\ HasPrefix(path, pre)
        /\ Len(path) > Len(pre)
        /\ \A i \in (Len(pre) + 1)..Len(path) : path[i] \in AlnumClass

C2_RoundTrip ==
    \A p \in Procs : \A c \in Bodies \cup {<<>>} :
        Loads(p) /\ gh[p].rposs = {Rec(c)} /\ err[p] # "EIO"
            => loadPage(title[p], buf[p], err[p])
                   = [page |-> Page(NameOf(req[p]), c), err |-> "nil"]

\* A load has returned the one-byte content of the save before it, the third
\* request on its name.
C2_Witness ==
    \E p \in Procs :
        /\ Loads(p)
        /\ gh[p].rposs = {Rec(<<"x">>)}
        /\ err[p] = "nil"
        /\ buf[p] = <<"x">>
        /\ nreqs >= 3

\* C3 as stated: a load of a name whose record exists, running beside saves on
\* that name, returns one of the contents an atomic put could have left: the
\* old one or a new one, never anything else and never an error.
C3_ReadSeesOldOrNew ==
    \A p \in Procs :
        Loads(p) /\ NoRec \notin gh[p].rposs
            => err[p] = "nil" /\ Rec(buf[p]) \in gh[p].rposs

\* C4 as stated: once the saves on a name have all returned, its record holds
\* exactly the content of one of them.
C4_LastWriterWins ==
    \A n \in Names :
        /\ n \in saved
        /\ \A q \in Procs : ~Saving(q, n)
        => /\ FileName(n) \in DOMAIN dir
           /\ Rec(dir[FileName(n)].data) \in poss[n]

\* C5: a view of a name that has no record, and for which no save runs beside
\* it, is answered by a redirect to /edit/ and that name.
C5_ViewBeforeCreate ==
    \A p \in Procs :
        Done(p) /\ call[p] = "view" /\ gh[p].rposs = {NoRec}
            => resp[p] = Redirect(EditPrefix \o NameOf(req[p]))

\* A view of a name without a record has been answered.
C5_Witness ==
    \E p \in Procs :
        /\ Done(p) /\ call[p] = "view" /\ gh[p].rposs = {NoRec}
        /\ req[p] = ViewPrefix \o <<"a">>
        /\ resp[p].status = 302

\* C6: an edit of a name that has no record, and for which no save runs beside
\* it, renders the edit template on the Page with that name and no content,
\* and leaves the name without a record.
C6_EditBeforeCreate ==
    \A p \in Procs :
        Done(p) /\ call[p] = "edit" /\ gh[p].rposs = {NoRec}
            => /\ resp[p] = renderTemplate("edit", Page(NameOf(req[p]), <<>>), "none")
               /\ FileName(NameOf(req[p])) \notin DOMAIN dir

\* An edit of a name without a record has been answered.
C6_Witness ==
    \E p \in Procs :
        /\ Done(p) /\ call[p] = "edit" /\ gh[p].rposs = {NoRec}
        /\ req[p] = EditPrefix \o <<"A">>
        /\ resp[p].status = 200

\* C7 as stated: when the load of a view or an edit fails with an error other
\* than "no such file", the response is a server error.
C7_StorageFailureIsServerError ==
    \A p \in Procs :
        Loads(p) /\ err[p] \notin {"nil", "ENOENT"} => resp[p].status = 500

\* C8: when a save of content c under name n has succeeded with no other save
\* on n beside or after it, a view of n whose load does not fail renders the
\* view template on the Page with title n and body c, also for c empty.
C8_SaveThenView ==
    \A p \in Procs : \A c \in Bodies \cup {<<>>} :
        Done(p) /\ call[p] = "view" /\ gh[p].rposs = {Rec(c)} /\ err[p] # "EIO"
            => resp[p] = renderTemplate("view", Page(NameOf(req[p]), c), "none")

\* A view has rendered a page saved with empty content.
C8_Witness ==
    \E p \in Procs :
        /\ Done(p) /\ call[p] = "view" /\ gh[p].rposs = {Rec(<<>>)}
        /\ resp[p].status = 200
        /\ resp[p].page.Body = <<>>

\* The names of a listing.
Listed(pages) == {pages[i] : i \in DOMAIN pages}

\* C9 as stated: a listing that no save runs beside and whose directory read
\* does not fail renders the index on exactly the names a save has succeeded
\* for, each once.
C9_ListIsSavedNames ==
    \A p \in Procs :
        Done(p) /\ call[p] = "index" /\ gh[p].flag /\ err[p] = "nil"
            => /\ resp[p] = renderIndexTemplate("index", resp[p].pages, "none")
               /\ Listed(resp[p].pages) = saved
               /\ Cardinality(Listed(resp[p].pages)) = Len(resp[p].pages)

\* C10: only a step of a save in os.WriteFile changes the data directory;
\* every step of a listing, a view, an edit or a rejected request leaves
\* every entry and every byte of it as it was.
C10_ReadOnlyFrame ==
    [][ dir' # dir
            => \E p \in Procs :
                 /\ call[p] = "save"
                 /\ pc[p] \in {"wopen", "write"}
                 /\ pc'[p] # pc[p] ]_vars

\* An edit of a missing page has returned, and the page is still missing.
C10_Witness ==
    \E p \in Procs :
        /\ Done(p) /\ call[p] = "edit" /\ err[p] = "ENOENT"
        /\ FileName(title[p]) \notin DOMAIN dir
        /\ saved # {}

(***************************************************************************)
(* The name grammar, the link transform and the links it writes.           *)
(***************************************************************************)
\* A name: one or more characters, each an ASCII letter or digit.
NameValidator(s) ==
    /\ s # <<>>
    /\ \A i \in DOMAIN s : s[i] \in Upper \cup Lower \cup Digits

\* C11: the router calls a handler with s as the name exactly when s is a
\* name, for each of view, edit and save alike, and the link expression
\* matches s in brackets exactly when s is a name: the route matcher and the
\* link matcher accept the same names.
C11_NameValidation ==
    lpc = "matched"
        => /\ valid.route = (IF NameValidator(content) THEN Keywords ELSE {})
           /\ valid.marker = NameValidator(content)

\* A name of a capital, a small letter and a digit has gone through both
\* matchers.
C11_Witness ==
    /\ lpc = "matched"
    /\ content = <<"A", "z", "0">>
    /\ valid.route = Keywords
    /\ valid.marker

\* The markers of s: the places of an opening bracket, a name and a closing
\* bracket.
Markers(s) ==
    {m \in (DOMAIN s) \X (DOMAIN s) :
        /\ s[m[1]] = "["
        /\ s[m[2]] = "]"
        /\ m[1] < m[2]
        /\ NameValidator(SubSeq(s, m[1] + 1, m[2] - 1))}

\* The cross-reference to the view of a name, with the name as its label.
CrossRef(name) ==
    <<"<", "a", " ", "h", "r", "e", "f", "=", "\"", "/", "v", "i", "e", "w", "/">>
        \o name \o <<"\"", ">">> \o name \o <<"<", "/", "a", ">">>

RECURSIVE Transformed(_, _)
\* s from position i on, with every marker replaced by its cross-reference
\* and every other character kept.
Transformed(s, i) ==
    IF i > Len(s) THEN <<>>
    ELSE LET here == {m \in Markers(s) : m[1] = i}
         IN  IF here = {} THEN <<s[i]>> \o Transformed(s, i + 1)
             ELSE LET m == CHOOSE x \in here : TRUE
                  IN  CrossRef(SubSeq(s, i + 1, m[2] - 1)) \o Transformed(s, m[2] + 1)

\* C12: processLinks gives the content with every marker replaced by the
\* cross-reference to /view/ and its name, labelled with the name, and every
\* other character in its place; a content without a marker, such as empty
\* brackets or brackets around a blank, comes out as it went in.
C12_LinkTransform ==
    lpc \in {"processed", "followed"}
        => /\ html = Transformed(content, 1)
           /\ Markers(content) = {} => html = content

\* Two markers next to each other have been replaced.
C12_Witness ==
    /\ lpc = "processed"
    /\ content = <<"[", "A", "]", "[", "0", "]">>
    /\ html = CrossRef(<<"A">>) \o CrossRef(<<"0">>)

\* C13: every file the server has put into the data directory is named by a
\* name and the suffix: whatever requests arrive, in whatever interleaving, no
\* file is created under a key with a separator, a dot or any other character
\* outside the grammar.
C13_StoreKeys ==
    /\ \A f \in DOMAIN dir \ DOMAIN ForeignDir :
            /\ ~dir[f].isDir
            /\ HasSuffix(f, TxtSuffix)
            /\ NameValidator(TrimSuffix(f, TxtSuffix))
    /\ \A f \in DOMAIN dir :
            ~dir[f].isDir /\ HasSuffix(f, TxtSuffix)
                => NameValidator(TrimSuffix(f, TxtSuffix))

\* A save to /save/../k has been answered "not found" beside a page that a
\* save has created.
C13_Witness ==
    \E p \in Procs :
        /\ Done(p)
        /\ req[p] = SavePrefix \o <<".", ".", "/", "k">>
        /\ resp[p] = NotFound
        /\ DOMAIN dir # DOMAIN ForeignDir

\* The execution of the template of request p has failed.
ExecFailed(p) == resp[p].kind \in {"EEXEC", "partial+error"}

\* C14 as stated: when the execution of the template fails in a view, an edit
\* or a listing, the response is a server error and nothing of the page has
\* been written to it.
C14_RenderFailureIsClean ==
    \A p \in Procs :
        Done(p) /\ call[p] \in {"view", "edit", "index"} /\ ExecFailed(p)
            => /\ resp[p].status = 500
               /\ resp[p].tmpl = ""
               /\ resp[p].page = NilPage
               /\ resp[p].pages = <<>>

\* C15: a request for /save/ and a name is answered by saveHandler, in one
\* of two ways: when os.WriteFile has returned no error, by the redirect to
\* /view/ and exactly that name, the file of the name being there; when it has
\* returned an error, by a server error that carries no redirect.
C15_SaveOutcome ==
    \A p \in Procs :
        Done(p) /\ HasPrefix(req[p], SavePrefix) /\ WellFormed(req[p])
            => /\ call[p] = "save"
               /\ \/ /\ err[p] = "nil"
                     /\ resp[p] = Redirect(ViewPrefix \o NameOf(req[p]))
                     /\ FileName(NameOf(req[p])) \in DOMAIN dir
                  \/ /\ err[p] # "nil"
                     /\ resp[p].status = 500
                     /\ resp[p].location = <<>>

\* A save whose put has failed has been answered, after one that succeeded.
C15_Witness ==
    \E p \in Procs :
        /\ Done(p) /\ call[p] = "save"
        /\ err[p] = "EIO"
        /\ resp[p] = Error("EIO")
        /\ saved # {}

\* C16: a step of a save changes no entry of the data directory but the file
\* of its own name, and a name whose last save ran alone on the name and
\* succeeded holds exactly the content of that save, whatever saves on the
\* other name ran before it, beside it or after it; "A" and "a" are two names.
C16_SavesIndependent ==
    /\ [](\A n \in Names : \A c \in Bodies :
            poss[n] = {Rec(c)}
                => /\ FileName(n) \in DOMAIN dir
                   /\ dir[FileName(n)] = File(c))
    /\ [][\A f \in DOMAIN dir \cup DOMAIN dir' :
            (f \notin DOMAIN dir \/ f \notin DOMAIN dir' \/ dir'[f] # dir[f])
                => \E p \in Procs :
                      /\ call[p] = "save"
                      /\ pc[p] \in {"wopen", "write"}
                      /\ pc'[p] # pc[p]
                      /\ f = FileName(title[p])]_vars

\* A save on "a" has succeeded while a save on "A" has truncated its file and
\* not yet written to it, and "a" holds the content of its save.
C16_Witness ==
    \E p, q \in Procs :
        /\ Done(p) /\ call[p] = "save" /\ title[p] = <<"a">>
        /\ gh[p].flag
        /\ body[p] = <<"y", "z">>
        /\ dir[FileName(<<"a">>)] = File(<<"y", "z">>)
        /\ pc[q] = "write" /\ title[q] = <<"A">> /\ body[q] = <<"x">>
        /\ poss[<<"a">>] = {Rec(<<"y", "z">>)}

\* sub occurs in s.
Contains(s, sub) ==
    \E i \in 0..(Len(s) - Len(sub)) : SubSeq(s, i + 1, i + Len(sub)) = sub

\* C17: the target of every link processLinks writes is dispatched to
\* viewHandler with the name of the marker as its title, never to "not
\* found", and viewHandler answers a link to a name without a file by the
\* redirect to /edit/ and that name.
C17_LinksRoutable ==
    lpc = "followed"
        => /\ Contains(html, <<"=", "\"">> \o follow.href \o <<"\"", ">">>)
           /\ Contains(content, <<"[">> \o follow.name \o <<"]">>)
           /\ NameValidator(follow.name)
           /\ follow.call = "view"
           /\ follow.title = follow.name
           /\ follow.resp = Redirect(EditPrefix \o follow.name)

\* The second link of a content has been followed.
C17_Witness ==
    /\ lpc = "followed"
    /\ content = <<"[", "A", "]", "[", "0", "]">>
    /\ follow.href = <<"/", "v", "i", "e", "w", "/", "0">>
    /\ follow.resp.status = 302

\* C18: a save whose form carries no body field, with no other save on its
\* name beside it, is answered by the redirect to /view/ and its name and
\* leaves the file of the name there and empty, whatever it held; the page is
\* then one of the pages getAllPages finds, and viewHandler renders it with
\* an empty body.
C18_SaveWithoutBodyField ==
    \A p \in Procs :
        Done(p) /\ call[p] = "save" /\ gh[p].nofield
            => LET n == NameOf(req[p])
               IN  /\ body[p] = <<>>
                   /\ resp[p] = Redirect(ViewPrefix \o n)
                   /\ FileName(n) \in DOMAIN dir
                   /\ n \in Listed(getAllPages(dir, "nil").pages)
                   /\ gh[p].flag =>
                        /\ dir[FileName(n)] = File(<<>>)
                        /\ viewHandler(n, dir[FileName(n)].data, "nil", "none")
                               = renderTemplate("view", Page(n, <<>>), "none")

\* A save without a body field has emptied a page of which a reader beside
\* it still holds the two bytes it had.
C18_Witness ==
    \E p, q \in Procs :
        /\ Done(p) /\ call[p] = "save" /\ gh[p].nofield /\ gh[p].flag
        /\ resp[p].status = 302
        /\ dir[FileName(title[p])] = File(<<>>)
        /\ pc[q] = "read" /\ title[q] = title[p]
        /\ buf[q] = <<"y", "z">>

====
